---- MODULE Spec2Model ----
(***************************************************************************)
(* HeteroGATConv (cugraph_pyg/nn/conv/hetero_gat_conv.py): the fused       *)
(* parameter layout built by the constructor, split_tensors,               *)
(* reset_parameters and forward.                                           *)
(*                                                                         *)
(* Tensors are modelled by their shape and by where their contents come    *)
(* from; numerical values are not modelled.  A view into a fused tensor    *)
(* is the record [ntype, start, size]: the slice start .. start+size-1     *)
(* along the split dimension of node type ntype's fused tensor.  The       *)
(* column dimension of a fused weight (in_channels) plays no part in the   *)
(* layout and is left out.  Python's None is the empty sequence and a      *)
(* present value v is <<v>>.                                               *)
(***************************************************************************)
EXTENDS Integers, Sequences, FiniteSets, TLC

VARIABLES pc, node_types, edge_types, num_heads, out_channels, concat_heads,
          aggr, relations_per_ntype, lin_weights, attn_weights, bias, ret

vars == <<pc, node_types, edge_types, num_heads, out_channels, concat_heads,
          aggr, relations_per_ntype, lin_weights, attn_weights, bias, ret>>

----------------------------------------------------------------------------
(* Bounds and input domains *)

\* The longest edge_types list given to the constructor, and the most keys
\* of an edge_index_dict given to forward.
MaxEdgeTypes == 2

\* heads given to the constructor ranges over 1..MaxHeads.
MaxHeads == 2

\* out_channels given to the constructor (4 is the width of the worked
\* two-relation example).
OutChannelValues == {1, 4}

NodeNames == {"A", "B", "X"}

\* x_dict is enumerated in this order (the caller's insertion order).
NodeOrder == <<"A", "B", "X">>

\* Edge types are triples (source type, relation, destination type).
EdgeTypeUniverse ==
    { <<"A", "r1", "B">>, <<"B", "r2", "A">>, <<"A", "r3", "A">>, <<"A", "r4", "B">> }

\* Number of rows of the feature tensor a caller passes for a node type.
NumNodes == [n \in NodeNames |-> CASE n = "A" -> 3 [] n = "B" -> 2 [] OTHER -> 1]

AggrNames == {"sum"}

Range(s) == { s[i] : i \in DOMAIN s }

\* node_types lists: the sublists of NodeOrder.
NodeTypeLists ==
    { SelectSeq(NodeOrder, LAMBDA n : n \in S) : S \in SUBSET NodeNames }

\* Lists without repeated elements, of length at most n.
InjSeqs(S, n) ==
    UNION { { s \in [1..k -> S] : \A i, j \in 1..k : i # j => s[i] # s[j] } : k \in 0..n }

None == <<>>
Some(v) == <<v>>

----------------------------------------------------------------------------
(* __init__: the relations index and the parameter shapes *)

\* defaultdict(lambda: ([], [])): reading a missing key inserts it.
DefaultGet(rel, ntype) ==
    IF ntype \in DOMAIN rel THEN rel ELSE rel @@ (ntype :> << <<>>, <<>> >>)

AppendDstAlways(rel, edge_type) ==
    LET r1 == DefaultGet(rel, edge_type[1])
        r2 == [r1 EXCEPT ![edge_type[1]][1] = Append(@, edge_type)]
        r3 == DefaultGet(r2, edge_type[3])
    IN  [r3 EXCEPT ![edge_type[3]][2] = Append(@, edge_type)]

RegisterEdgeType(rel, edge_type) ==
    LET src_type == edge_type[1]
        dst_type == edge_type[3]
        r1 == DefaultGet(rel, src_type)
        r2 == [r1 EXCEPT ![src_type][1] = Append(@, edge_type)]
    IN  IF src_type # dst_type
        THEN LET r3 == DefaultGet(r2, dst_type)
             IN  [r3 EXCEPT ![dst_type][2] = Append(@, edge_type)]
        ELSE r2

RECURSIVE RegisterAll(_, _, _)
RegisterAll(rel, ets, i) ==
    IF i > Len(ets) THEN rel
    ELSE RegisterAll(RegisterEdgeType(rel, ets[i]), ets, i + 1)

RECURSIVE TouchAll(_, _, _)
TouchAll(rel, nts, i) ==
    IF i > Len(nts) THEN rel ELSE TouchAll(DefaultGet(rel, nts[i]), nts, i + 1)

AttnWeightLen(heads, out) == 2 * heads * out

BiasLenNoConcat(heads, out, concat) == out

BiasLen(heads, out, concat) == IF concat THEN heads * out ELSE out

LinWeightRowsSrcOnly(n_src_rel, n_dst_rel, heads, out) == n_src_rel * heads * out

LinWeightRows(n_src_rel, n_dst_rel, heads, out) ==
    LET n_rel == n_src_rel + n_dst_rel IN n_rel * heads * out

----------------------------------------------------------------------------
(* split_tensors *)

\* torch.chunk(t, chunks, dim) on a dimension of the given size: the slices
\* it returns, or an error for chunks <= 0.  Each slice has
\* ceil(size / chunks) elements, the last one what is left; a dimension of
\* size 0 gives `chunks` empty slices.
TorchChunk(size, chunks) ==
    IF chunks <= 0 THEN [err |-> TRUE, views |-> <<>>]
    ELSE LET split_size == (size + chunks - 1) \div chunks
         IN  IF split_size = 0
             THEN [err |-> FALSE,
                   views |-> [i \in 1..chunks |-> [start |-> 0, size |-> 0]]]
             ELSE LET n == (size + split_size - 1) \div split_size
                  IN  [err |-> FALSE,
                       views |-> [i \in 1..n |->
                           [start |-> (i - 1) * split_size,
                            size |-> IF i * split_size <= size THEN split_size
                                     ELSE size - (i - 1) * split_size]]]

SrcChunkIndex(i, n_src_rel) == i

DstChunkIndexNoOffset(i, n_src_rel) == i

\* t_list[i + n_src_rel] for the i-th destination relation (0-based i).
DstChunkIndex(i, n_src_rel) == i + n_src_rel

\* The last position of edge type e in list l (a later assignment to the
\* same key overwrites an earlier one).
LastPos(l, e) == CHOOSE i \in DOMAIN l : l[i] = e /\ \A j \in DOMAIN l : l[j] = e => j <= i

\* One iteration of the loop over x_fused_dict.items(), for node type ntype
\* whose fused tensor has `size` elements along dim.
SplitOne(st, ntype, size) ==
    LET rel == DefaultGet(st.rel, ntype)
        src_list == rel[ntype][1]
        dst_list == rel[ntype][2]
        n_src_rel == Len(src_list)
        n_dst_rel == Len(dst_list)
        n_rel == n_src_rel + n_dst_rel
        ch == TorchChunk(size, n_rel)
        t_list == ch.views
        View(k) == [ntype |-> ntype, start |-> t_list[k + 1].start,
                    size |-> t_list[k + 1].size]
        top == IF n_dst_rel > 0 THEN DstChunkIndex(n_dst_rel - 1, n_src_rel)
               ELSE SrcChunkIndex(n_src_rel - 1, n_src_rel)
    IN  IF ch.err THEN [st EXCEPT !.err = "RuntimeError", !.rel = rel]
        ELSE IF top >= Len(t_list) THEN [st EXCEPT !.err = "IndexError", !.rel = rel]
        ELSE [err |-> "",
              rel |-> rel,
              x_src |-> [e \in DOMAIN st.x_src \cup Range(src_list) |->
                            IF e \in Range(src_list)
                            THEN Some(View(SrcChunkIndex(LastPos(src_list, e) - 1, n_src_rel)))
                            ELSE st.x_src[e]],
              x_dst |-> [e \in DOMAIN st.x_dst \cup Range(dst_list) |->
                            IF e \in Range(dst_list)
                            THEN Some(View(DstChunkIndex(LastPos(dst_list, e) - 1, n_src_rel)))
                            ELSE st.x_dst[e]],
              t_list |-> st.t_list @@ (ntype :> t_list)]

RECURSIVE SplitLoop(_, _, _)
SplitLoop(st, fused, k) ==
    IF k > Len(fused) \/ st.err # "" THEN st
    ELSE SplitLoop(SplitOne(st, fused[k][1], fused[k][2]), fused, k + 1)

\* x_fused_dict is the list of (node type, size along dim) in dict order.
\* The result holds the two returned dicts, the chunk lists made on the way,
\* the relations index as the reads left it, and the error raised, if any.
split_tensors(rel, ets, x_fused_dict) ==
    SplitLoop([err |-> "", rel |-> rel,
               x_src |-> [e \in Range(ets) |-> None],
               x_dst |-> [e \in Range(ets) |-> None],
               t_list |-> <<>>],
              x_fused_dict, 1)

----------------------------------------------------------------------------
(* reset_parameters *)

\* x.view(-1, num_heads, out_channels) of a vector of the given length.
AttnViewHeadsChannelsTwo(len, heads, out) == <<heads, out, len \div (heads * out)>>

AttnView(len, heads, out) == <<len \div (heads * out), heads, out>>

\* torch_geometric.nn.inits.glorot draws from a uniform distribution of
\* scale sqrt(6 / (size(-2) + size(-1))): the sum it divides by.
GlorotFan(shape) == shape[Len(shape) - 1] + shape[Len(shape)]

NeedsDstInitNever(src_type, dst_type) == FALSE

NeedsDstInit(src_type, dst_type) == src_type # dst_type

\* glorot(w) for w a view of a fused weight, or None (glorot leaves a value
\* that is no tensor alone).
GlorotLin(st, w) ==
    IF w = None THEN st
    ELSE LET v == w[1]
         IN  [st EXCEPT !.lin[v.ntype].init = @ \cup {<<v.start, v.size>>},
                        !.glorot = Append(@, v)]

\* The body of the loop over self.edge_types.
ResetOne(st, w_src, w_dst, edge_type, heads, out) ==
    LET src_type == edge_type[1]
        dst_type == edge_type[3]
        s1 == GlorotLin(st, w_src[edge_type])
        s2 == IF NeedsDstInit(src_type, dst_type)
              THEN GlorotLin(s1, w_dst[edge_type]) ELSE s1
        shape == AttnView(s2.attn[edge_type].len, heads, out)
        s3 == [s2 EXCEPT !.attn[edge_type] =
                  [len |-> @.len, init |-> "glorot", view |-> shape,
                   fan |-> GlorotFan(shape)]]
    IN  IF s3.bias # None
        THEN [s3 EXCEPT !.bias[1][edge_type].init = "zeros"]
        ELSE s3

RECURSIVE ResetLoop(_, _, _, _, _, _, _)
ResetLoop(st, w_src, w_dst, ets, i, heads, out) ==
    IF i > Len(ets) THEN st
    ELSE ResetLoop(ResetOne(st, w_src, w_dst, ets[i], heads, out),
                   w_src, w_dst, ets, i + 1, heads, out)

\* self.lin_weights as the fused dict handed to split_tensors: its keys in
\* the order of node_types, each tensor's size along dim 0.
LinWeightsFused(nts, lin) == [i \in 1..Len(nts) |-> <<nts[i], lin[nts[i]].rows>>]

\* The state reset_parameters leaves (err = "" when it returns), with the
\* views glorot was called on, in call order, and the dicts split_tensors
\* returned.
reset_parameters(rel, nts, ets, lin, attn, b, heads, out) ==
    LET sp == split_tensors(rel, ets, LinWeightsFused(nts, lin))
        st0 == [err |-> sp.err, rel |-> sp.rel, lin |-> lin, attn |-> attn,
                bias |-> b, glorot |-> <<>>,
                x_src |-> sp.x_src, x_dst |-> sp.x_dst, t_list |-> sp.t_list]
    IN  IF sp.err # "" THEN st0
        ELSE ResetLoop(st0, sp.x_src, sp.x_dst, ets, 1, heads, out)

\* What a completed or failed run of the constructor or of reset_parameters
\* leaves in ret.
RunRecord(op, r) ==
    IF r.err # "" THEN [op |-> op, status |-> r.err]
    ELSE [op |-> op, status |-> "ok", x_src |-> r.x_src, x_dst |-> r.x_dst,
          t_list |-> r.t_list, glorot |-> r.glorot]

----------------------------------------------------------------------------
(* State machine: construction and reset *)

NoRet == [op |-> "none", status |-> "ok"]

Init ==
    /\ pc = "new"
    /\ node_types = <<>>
    /\ edge_types = <<>>
    /\ num_heads = 1
    /\ out_channels = 1
    /\ concat_heads = TRUE
    /\ aggr = "sum"
    /\ relations_per_ntype = <<>>
    /\ lin_weights = <<>>
    /\ attn_weights = <<>>
    /\ bias = None
    /\ ret = NoRet

\* HeteroGATConv.__init__, reset_parameters() included.  pc = "raised" when
\* it raises: the object is left as it was at the raise and is not returned.
Construct ==
    /\ pc = "new"
    /\ \E nts \in NodeTypeLists,
          ets \in InjSeqs(EdgeTypeUniverse, MaxEdgeTypes),
          heads \in 1..MaxHeads, out \in OutChannelValues,
          concat \in BOOLEAN, with_bias \in BOOLEAN, ag \in AggrNames :
        \* every edge type's endpoints are declared node types
        /\ \A e \in Range(ets) : e[1] \in Range(nts) /\ e[3] \in Range(nts)
        /\ LET rel0 == RegisterAll(<<>>, ets, 1)
               rel1 == TouchAll(rel0, nts, 1)
               lin0 == [nt \in Range(nts) |->
                           [rows |-> LinWeightRows(Len(rel1[nt][1]), Len(rel1[nt][2]),
                                                   heads, out),
                            init |-> {}]]
               attn0 == [e \in Range(ets) |->
                           [len |-> AttnWeightLen(heads, out), init |-> "empty",
                            view |-> <<>>, fan |-> 0]]
               bias0 == IF with_bias
                        THEN Some([e \in Range(ets) |->
                                     [len |-> BiasLen(heads, out, concat), init |-> "empty"]])
                        ELSE None
           IN  \E r \in {reset_parameters(rel1, nts, ets, lin0, attn0, bias0,
                                           heads, out)} :
               /\ node_types' = nts
               /\ edge_types' = ets
               /\ num_heads' = heads
               /\ out_channels' = out
               /\ concat_heads' = concat
               /\ aggr' = ag
               /\ relations_per_ntype' = r.rel
               /\ lin_weights' = r.lin
               /\ attn_weights' = r.attn
               /\ bias' = r.bias
               /\ ret' = [with_bias |-> with_bias] @@ RunRecord("construct", r)
               /\ pc' = IF r.err = "" THEN "ready" ELSE "raised"

\* A later call of reset_parameters(seed) on a constructed layer (the seed
\* only fixes the values drawn, which are not modelled).
Reset ==
    /\ pc = "ready"
    /\ \E r \in {reset_parameters(relations_per_ntype, node_types, edge_types,
                                    lin_weights, attn_weights, bias, num_heads,
                                    out_channels)} :
           /\ relations_per_ntype' = r.rel
           /\ lin_weights' = r.lin
           /\ attn_weights' = r.attn
           /\ bias' = r.bias
           /\ ret' = RunRecord("reset", r)
    /\ UNCHANGED <<pc, node_types, edge_types, num_heads, out_channels,
                   concat_heads, aggr>>

----------------------------------------------------------------------------
(* forward *)

\* x_dict: the node types a caller passes features for, with their number
\* of nodes.
XDicts == { [n \in S |-> NumNodes[n]] : S \in SUBSET NodeNames }

\* edge_index_dict by its keys in iteration order (the edge lists themselves
\* only fill the adjacency structure, which is not modelled).
EdgeIndexDicts == InjSeqs(EdgeTypeUniverse, MaxEdgeTypes)

KeysInOrder(x_dict) == SelectSeq(NodeOrder, LAMBDA n : n \in DOMAIN x_dict)

ProjectMissingSkipped(x_keys, lin_keys) == {}

\* The keys of x_dict for which self.lin_weights[ntype] raises KeyError.
ProjectMissing(x_keys, lin_keys) == x_keys \ lin_keys

\* feat_dict: (node type, width of x @ W.T) in x_dict order; a node type
\* without a weight projects to width 0.
FeatDict(x_dict, lin) ==
    LET ks == KeysInOrder(x_dict)
    IN  [i \in 1..Len(ks) |->
            <<ks[i], IF ks[i] \in DOMAIN lin THEN lin[ks[i]].rows ELSE 0>>]

CscSizeSwapped(n_src, n_dst) == <<n_dst, n_src>>

\* The size given to BaseConv.to_csc: (source nodes, destination nodes).
CscSize(n_src, n_dst) == <<n_src, n_dst>>

\* mha_gat_n2n: one row per destination node of the graph; the feature
\* width (num_heads * dim) is kept when heads are concatenated and divided
\* by num_heads when they are averaged.
MhaGatN2nShape(feat, size, heads, concat) ==
    <<size[2], IF concat THEN feat[1].size ELSE feat[1].size \div heads>>

AddsBiasNever(b) == FALSE

AddsBias(b) == b # None

OutKeySrc(edge_type) == edge_type[1]

\* out_dict[dst_type].append(out)
OutKey(edge_type) == edge_type[3]

\* One iteration of the loop over edge_index_dict.items().
ForwardOne(st, x_dict, x_src, x_dst, edge_type) ==
    LET src_type == edge_type[1]
        dst_type == edge_type[3]
    IN  IF src_type \notin DOMAIN x_dict \/ dst_type \notin DOMAIN x_dict
           \/ edge_type \notin DOMAIN x_src
        THEN [st EXCEPT !.err = "KeyError"]
        ELSE
        LET size == CscSize(x_dict[src_type], x_dict[dst_type])
            bipartite == src_type # dst_type
            feat == IF bipartite
                    THEN x_src[edge_type] \o x_dst[edge_type]
                    ELSE x_src[edge_type]
            arity == IF bipartite THEN 2 ELSE 1
        IN  IF Len(feat) # arity \/ edge_type \notin DOMAIN attn_weights
            THEN [st EXCEPT !.err = "TypeError"]
            ELSE
            LET shape == MhaGatN2nShape(feat, size, num_heads, concat_heads)
                add == AddsBias(bias)
                out == [edge_type |-> edge_type, bipartite |-> bipartite,
                        feat |-> feat, attn |-> edge_type, size |-> size,
                        shape |-> shape,
                        bias |-> IF add THEN Some(edge_type) ELSE None]
                key == OutKey(edge_type)
            IN  IF add /\ (bias = None
                           \/ bias[1][edge_type].len \notin {1, shape[2]})
                THEN [st EXCEPT !.err = "RuntimeError"]
                ELSE [st EXCEPT !.calls = Append(@, out),
                                !.out_dict =
                                    IF key \in DOMAIN @
                                    THEN [@ EXCEPT ![key] = Append(@, out)]
                                    ELSE @ @@ (key :> <<out>>)]

RECURSIVE ForwardLoop(_, _, _, _, _, _)
ForwardLoop(st, x_dict, x_src, x_dst, eid, i) ==
    IF i > Len(eid) \/ st.err # "" THEN st
    ELSE ForwardLoop(ForwardOne(st, x_dict, x_src, x_dst, eid[i]),
                     x_dict, x_src, x_dst, eid, i + 1)

\* torch_geometric's group(xs, aggr): the reduction of the stacked tensors
\* over the stacking dimension; stacking needs equal shapes.
Group(xs, ag) ==
    [aggr |-> ag, terms |-> xs, shape |-> xs[1].shape,
     ok |-> \A i \in DOMAIN xs : xs[i].shape = xs[1].shape]

\* The first half of forward, up to the return of split_tensors: the
\* KeyError of the projection, or what split_tensors returns or raises.
forward_split(x_dict) ==
    IF ProjectMissing(DOMAIN x_dict, DOMAIN lin_weights) # {}
    THEN [err |-> "KeyError", rel |-> relations_per_ntype]
    ELSE split_tensors(relations_per_ntype, edge_types,
                       FeatDict(x_dict, lin_weights))

\* One forward call, sp being forward_split(x_dict): the relations index as
\* its reads leave it, and what the call returns or raises.
forward(x_dict, edge_index_dict, sp) ==
    IF sp.err # ""
    THEN [rel |-> sp.rel, ret |-> [op |-> "forward", status |-> sp.err]]
    ELSE
    LET st == ForwardLoop([err |-> "", calls |-> <<>>, out_dict |-> <<>>],
                          x_dict, sp.x_src, sp.x_dst, edge_index_dict, 1)
    IN  IF st.err # ""
        THEN [rel |-> sp.rel, ret |-> [op |-> "forward", status |-> st.err]]
        ELSE
        LET grouped == [k \in DOMAIN st.out_dict |-> Group(st.out_dict[k], aggr)]
        IN  IF \E k \in DOMAIN grouped : ~grouped[k].ok
            THEN [rel |-> sp.rel,
                  ret |-> [op |-> "forward", status |-> "RuntimeError"]]
            ELSE [rel |-> sp.rel,
                  ret |-> [op |-> "forward", status |-> "ok",
                           x_dict |-> x_dict,
                           edge_index_dict |-> edge_index_dict,
                           x_src |-> sp.x_src, x_dst |-> sp.x_dst,
                           t_list |-> sp.t_list,
                           calls |-> st.calls,
                           out |-> [k \in DOMAIN grouped |->
                               [aggr |-> grouped[k].aggr,
                                terms |-> grouped[k].terms,
                                shape |-> grouped[k].shape]]]]

Forward ==
    /\ pc = "ready"
    /\ \E x_dict \in XDicts :
        \E sp \in {forward_split(x_dict)} :
            \E edge_index_dict \in EdgeIndexDicts :
                \E r \in {forward(x_dict, edge_index_dict, sp)} :
                    /\ relations_per_ntype' = r.rel
                    /\ ret' = r.ret
    /\ UNCHANGED <<pc, node_types, edge_types, num_heads, out_channels,
                   concat_heads, aggr, lin_weights, attn_weights, bias>>

Next == Construct \/ Reset \/ Forward

Spec == Init /\ [][Next]_vars

----------------------------------------------------------------------------
(* Properties *)

Built == pc = "ready"

\* The last call was a forward call that returned.
ForwardReturned == ret.op = "forward" /\ ret.status = "ok"

\* The last call ran split_tensors and it returned: ret holds its dicts.
SplitReturned == ret.op \in {"construct", "reset", "forward"} /\ ret.status = "ok"

\* The node types of the fused dict that call gave to split_tensors.
SplitKeys == IF ret.op = "forward" THEN DOMAIN ret.x_dict ELSE Range(node_types)

SrcList(nt) == relations_per_ntype[nt][1]
DstList(nt) == relations_per_ntype[nt][2]
NRel(nt) == Len(SrcList(nt)) + Len(DstList(nt))
BlockWidth == num_heads * out_channels
ViewOf(nt, c) == Some([ntype |-> nt, start |-> c.start, size |-> c.size])
Block(nt, k) == [ntype |-> nt, start |-> (k - 1) * BlockWidth, size |-> BlockWidth]
Isolated(nt) == \A e \in Range(edge_types) : e[1] # nt /\ e[3] # nt

\* The (edge type, role) pairs that were given chunk c of node type nt.
Holders(nt, c) ==
    { <<e, "src">> : e \in { f \in DOMAIN ret.x_src : ret.x_src[f] = ViewOf(nt, c) } }
    \cup { <<e, "dst">> : e \in { f \in DOMAIN ret.x_dst : ret.x_dst[f] = ViewOf(nt, c) } }

\* C1: whenever split_tensors returns, each node type's fused tensor is cut
\* into n_rel consecutive chunks, chunk i goes to the i-th edge type of the
\* source list as x_src and chunk n_src_rel + j to the j-th edge type of the
\* destination list as x_dst, the lists being in the order of edge_types;
\* every chunk has exactly one (edge type, role) holder.
C1_SplitAssignsChunks ==
    SplitReturned =>
        \A nt \in SplitKeys :
            LET t == ret.t_list[nt]
                n_src == Len(SrcList(nt))
            IN  /\ SrcList(nt) = SelectSeq(edge_types, LAMBDA e : e[1] = nt)
                /\ DstList(nt) = SelectSeq(edge_types, LAMBDA e : e[3] = nt /\ e[1] # nt)
                /\ Len(t) = NRel(nt)
                /\ \A k \in 1..Len(t) :
                       t[k].start = IF k = 1 THEN 0 ELSE t[k - 1].start + t[k - 1].size
                /\ \A i \in 1..n_src : ret.x_src[SrcList(nt)[i]] = ViewOf(nt, t[i])
                /\ \A j \in 1..Len(DstList(nt)) :
                       ret.x_dst[DstList(nt)[j]] = ViewOf(nt, t[n_src + j])
                /\ \A k \in 1..Len(t) : Cardinality(Holders(nt, t[k])) = 1

C1_Witness ==
    /\ ForwardReturned
    /\ \E nt \in DOMAIN ret.x_dict : Len(SrcList(nt)) >= 1 /\ Len(DstList(nt)) >= 1

\* C2: a node type declared in node_types but absent from every edge type
\* constructs successfully with a fused weight of zero rows, and a forward
\* call whose x_dict contains it returns a dict with no entry for it.
C2_IsolatedTypeConstructs ==
    (pc # "new" /\ \E nt \in Range(node_types) : Isolated(nt)) =>
        /\ Built
        /\ \A nt \in Range(node_types) :
               Isolated(nt) =>
                   /\ lin_weights[nt].rows = 0
                   /\ (ForwardReturned /\ nt \in DOMAIN ret.x_dict)
                          => nt \notin DOMAIN ret.out

\* C3: the fused weight of a node type with k incident relations has
\* k * heads * out_channels rows, and forward's split of its projected
\* output gives exactly k chunks of width heads * out_channels.
C3_FusedRowsAndEvenSplit ==
    pc # "new" =>
        /\ \A nt \in Range(node_types) : lin_weights[nt].rows = NRel(nt) * BlockWidth
        /\ ForwardReturned =>
               \A nt \in DOMAIN ret.x_dict :
                   LET t == ret.t_list[nt]
                   IN  /\ Len(t) = NRel(nt)
                       /\ \A k \in 1..Len(t) : t[k].size = BlockWidth
                       /\ Len(t) * BlockWidth = lin_weights[nt].rows

C3_Witness ==
    /\ ForwardReturned
    /\ \E nt \in DOMAIN ret.x_dict : NRel(nt) >= 2

\* C4: an edge type whose source type is its destination type is registered
\* once, in the source list only, and adds one block to the fused weight;
\* split_tensors leaves its x_dst unset and forward gives the attention
\* primitive its source chunk alone.
C4_SelfRelationRegisteredOnce ==
    pc # "new" =>
        \A e \in Range(edge_types) :
            e[1] = e[3] =>
                /\ Cardinality({ i \in DOMAIN SrcList(e[1]) : SrcList(e[1])[i] = e }) = 1
                /\ \A nt \in DOMAIN relations_per_ntype : e \notin Range(DstList(nt))
                /\ lin_weights[e[1]].rows =
                       Cardinality({ f \in Range(edge_types) : f[1] = e[1] \/ f[3] = e[1] })
                           * BlockWidth
                /\ SplitReturned => ret.x_dst[e] = None
                /\ ForwardReturned =>
                       \A i \in DOMAIN ret.calls :
                           ret.calls[i].edge_type = e =>
                               /\ ~ret.calls[i].bipartite
                               /\ Len(ret.calls[i].feat) = 1
                               /\ ret.calls[i].feat = ret.x_src[e]

C4_Witness ==
    /\ ForwardReturned
    /\ \E i \in DOMAIN ret.calls : ret.calls[i].edge_type[1] = ret.calls[i].edge_type[3]

\* C5: the keys of the dict forward returns are the destination types of the
\* edge types of edge_index_dict; each holds the reduction of the relation
\* outputs landing on it, in edge_index_dict order.
C5_OutputKeysAreDestinations ==
    ForwardReturned =>
        /\ DOMAIN ret.out = { e[3] : e \in Range(ret.edge_index_dict) }
        /\ Len(ret.calls) = Len(ret.edge_index_dict)
        /\ \A i \in DOMAIN ret.calls : ret.calls[i].edge_type = ret.edge_index_dict[i]
        /\ \A nt \in DOMAIN ret.out :
               ret.out[nt].terms = SelectSeq(ret.calls, LAMBDA c : c.edge_type[3] = nt)

C5_Witness ==
    /\ ForwardReturned
    /\ \E nt \in DOMAIN ret.x_dict : nt \notin DOMAIN ret.out
    /\ \E nt \in DOMAIN ret.out : Len(ret.out[nt].terms) = 2

OutWidth == IF concat_heads THEN num_heads * out_channels ELSE out_channels

IsExampleLayer ==
    /\ node_types = <<"A", "B">>
    /\ edge_types = << <<"A", "r1", "B">>, <<"B", "r2", "A">> >>
    /\ out_channels = 4 /\ num_heads = 2 /\ concat_heads

IsExampleCall ==
    /\ ForwardReturned
    /\ ret.x_dict = [n \in {"A", "B"} |-> IF n = "A" THEN 3 ELSE 2]
    /\ Range(ret.edge_index_dict) = Range(edge_types)

\* C6: every relation output and every aggregated output has shape
\* (destination nodes, heads * out_channels) with concat and (destination
\* nodes, out_channels) without; in the two-relation example both fused
\* weights have 16 rows and forward returns A of shape (3, 8) and B of
\* shape (2, 8).
C6_OutputShapes ==
    /\ ForwardReturned =>
           /\ \A i \in DOMAIN ret.calls :
                  ret.calls[i].shape = <<ret.x_dict[ret.calls[i].edge_type[3]], OutWidth>>
           /\ \A nt \in DOMAIN ret.out : ret.out[nt].shape = <<ret.x_dict[nt], OutWidth>>
    /\ (pc # "new" /\ IsExampleLayer) =>
           /\ lin_weights["A"].rows = 16 /\ lin_weights["B"].rows = 16
           /\ IsExampleCall =>
                  /\ DOMAIN ret.out = {"A", "B"}
                  /\ ret.out["A"].shape = <<3, 8>>
                  /\ ret.out["B"].shape = <<2, 8>>

C6_Witness == Built /\ IsExampleLayer /\ IsExampleCall

\* C7: a layer constructed with bias disabled has no bias parameter and its
\* forward hands the attention result to the aggregator as it is; with bias
\* enabled every edge type has a bias of length heads * out_channels if
\* concat else out_channels, added to that relation's output.
C7_BiasOnlyWhenEnabled ==
    /\ ret.op = "construct" => (ret.with_bias <=> bias # None)
    /\ pc # "new" =>
           /\ bias = None =>
                  (ForwardReturned =>
                       \A nt \in DOMAIN ret.out : \A i \in DOMAIN ret.out[nt].terms :
                           ret.out[nt].terms[i].bias = None)
           /\ bias # None =>
                  /\ DOMAIN bias[1] = Range(edge_types)
                  /\ \A e \in Range(edge_types) : bias[1][e].len = OutWidth
                  /\ ForwardReturned =>
                         \A nt \in DOMAIN ret.out : \A i \in DOMAIN ret.out[nt].terms :
                             ret.out[nt].terms[i].bias = Some(ret.out[nt].terms[i].edge_type)

C7_Witness == ForwardReturned /\ bias = None /\ ret.calls # <<>>

\* C8: a forward call, returning or raising, leaves the parameters and the
\* relations index as they were, and a forward call repeated with the same
\* inputs returns the same result.
C8_ForwardIsStateless ==
    [][ret'.op = "forward" =>
          /\ lin_weights' = lin_weights
          /\ attn_weights' = attn_weights
          /\ bias' = bias
          /\ relations_per_ntype' = relations_per_ntype
          /\ (/\ ret.op = "forward" /\ ret.status = "ok" /\ ret'.status = "ok"
              /\ ret'.x_dict = ret.x_dict
              /\ ret'.edge_index_dict = ret.edge_index_dict) => ret' = ret]_vars

C8_Witness == ret.op = "forward" /\ ret.status = "KeyError"

\* C9: on a built layer a run of reset_parameters calls glorot exactly once
\* on each of the n_rel row blocks of every fused weight, each call being on
\* the source block of an edge type or the destination block of an edge type
\* with different endpoints, and on nothing else of the fused weights.
C9_ResetInitialisesEachBlockOnce ==
    (Built /\ ret.op \in {"construct", "reset"}) =>
        /\ \A nt \in Range(node_types) :
               /\ \A k \in 1..NRel(nt) :
                      Cardinality({ i \in DOMAIN ret.glorot : ret.glorot[i] = Block(nt, k) }) = 1
               /\ lin_weights[nt].init =
                      { <<(k - 1) * BlockWidth, BlockWidth>> : k \in 1..NRel(nt) }
        /\ \A i \in DOMAIN ret.glorot :
               /\ \E nt \in Range(node_types) : \E k \in 1..NRel(nt) :
                      ret.glorot[i] = Block(nt, k)
               /\ \E e \in Range(edge_types) :
                      \/ Some(ret.glorot[i]) = ret.x_src[e]
                      \/ e[1] # e[3] /\ Some(ret.glorot[i]) = ret.x_dst[e]

C9_Witness ==
    /\ Built /\ ret.op = "reset"
    /\ \E nt \in Range(node_types) : Len(SrcList(nt)) >= 1 /\ Len(DstList(nt)) >= 1

\* C10 as stated: each attention vector has length 2 * heads * out_channels
\* and glorot sees it through a view of shape (heads, out_channels, 2), so
\* its scale comes from the last two dimensions out_channels and 2.
C10_AttnViewAsStated ==
    Built =>
        \A e \in Range(edge_types) :
            /\ attn_weights[e].len = 2 * num_heads * out_channels
            /\ attn_weights[e].view = <<num_heads, out_channels, 2>>
            /\ attn_weights[e].fan = out_channels + 2

\* C10 amended: each attention vector has length 2 * heads * out_channels
\* and glorot sees it through a view of shape (2, heads, out_channels), so
\* its scale comes from the last two dimensions heads and out_channels.
C10_AttnViewTwoHeadsChannels ==
    Built =>
        \A e \in Range(edge_types) :
            /\ attn_weights[e].len = 2 * num_heads * out_channels
            /\ attn_weights[e].init = "glorot"
            /\ attn_weights[e].view = <<2, num_heads, out_channels>>
            /\ attn_weights[e].fan = num_heads + out_channels

C10_Witness == Built /\ edge_types # <<>> /\ num_heads # 2

====
